---- MODULE Spec2Model ----
(***************************************************************************)
(* State-machine model of src/proxy_network_tester.py: the body of main    *)
(* from its try block on (run_comprehensive_test, print_summary,           *)
(* save_results and the two exception handlers), with the probes           *)
(* test_direct_connection / test_proxy_connection as operators.            *)
(*                                                                         *)
(* Three specifications: Spec is main; SpecRun is run_comprehensive_test   *)
(* called on a tester with any test_urls; SpecReporting is print_summary   *)
(* and save_results applied to any report.                                 *)
(*                                                                         *)
(* Conventions.                                                            *)
(*  - An Optional[...] value is a sequence: None is <<>>, a present value  *)
(*    x is <<x>>.                                                          *)
(*  - A proxy address is a sequence of one-character strings, so that      *)
(*    urlparse's scheme detection and the f-string "http://{...}" are      *)
(*    computed character by character.  Target URLs are never parsed by    *)
(*    the program itself and stay plain strings.                           *)
(*  - response_time (a wall-clock float) is left out of ConnectionResult;  *)
(*    headers is kept as present / absent.                                 *)
(*  - An entry of direct_connections / proxy_results keeps the fields url  *)
(*    and proxy of asdict(result); the outcomes live in `result` and in    *)
(*    the summary counters.                                                *)
(***************************************************************************)
EXTENDS Integers, Sequences, FiniteSets, TLC

VARIABLES
    pc,                 \* position in main / run_comprehensive_test / save_results
    test_urls,          \* tester.test_urls
    environ,            \* os.environ (the eight proxy variables)
    stdin_open,         \* TRUE: input() returns a line; FALSE: stdin is at EOF
    report,             \* the dict `results` of run_comprehensive_test
    i,                  \* index of `url` in the loop being run
    discovered_proxies, \* the list iterated at line 262
    pj,                 \* index of `proxy` in discovered_proxies
    proxy_results,      \* the list proxy_results of the current proxy
    result,             \* the ConnectionResult a probe returned, until it is tallied
    net_event,          \* history: what happened on the wire in that probe (Optional)
    file,               \* the file named by --save
    raised,             \* the exception propagating to main's handlers (Optional)
    exit_code,          \* the process's exit status (Optional)
    warned,             \* save_results printed "Failed to save results"
    probe_log           \* history: the requests issued, <<url, proxy argument>>

vars == <<pc, test_urls, environ, stdin_open, report, i, discovered_proxies, pj,
          proxy_results, result, net_event, file, raised, exit_code, warned, probe_log>>

----------------------------------------------------------------------------
(* Bounds of the model *)

\* how many of the 28 generated host:port candidates are kept
MaxStatic == 1
\* how many --url arguments
MaxExtraUrls == 1
\* how many --proxy arguments
MaxCustom == 1
\* the largest total_tests of a report handed to print_summary directly
MaxTally == 6

----------------------------------------------------------------------------
(* Optional values and strings *)

None == <<>>
Some(x) == <<x>>

RECURSIVE Concat(_)
Concat(ss) == IF ss = <<>> THEN <<>> ELSE Head(ss) \o Concat(Tail(ss))

LowerLetters == <<"a","b","c","d","e","f","g","h","i","j","k","l","m",
                  "n","o","p","q","r","s","t","u","v","w","x","y","z">>
UpperLetters == <<"A","B","C","D","E","F","G","H","I","J","K","L","M",
                  "N","O","P","Q","R","S","T","U","V","W","X","Y","Z">>
DigitChars == <<"0","1","2","3","4","5","6","7","8","9">>

Range(s) == {s[k] : k \in DOMAIN s}

\* str.lower() on one character
Lower(c) ==
    IF \E k \in DOMAIN UpperLetters : UpperLetters[k] = c
    THEN LowerLetters[CHOOSE k \in DOMAIN UpperLetters : UpperLetters[k] = c]
    ELSE c

\* str(n) for a non-negative integer
RECURSIVE IntToStr(_)
IntToStr(n) ==
    IF n < 10 THEN <<DigitChars[n + 1]>>
    ELSE IntToStr(n \div 10) \o <<DigitChars[(n % 10) + 1]>>

\* str.find(ch), 1-based; 0 when absent
Find(s, ch) ==
    IF \E k \in DOMAIN s : s[k] = ch
    THEN CHOOSE k \in DOMAIN s : s[k] = ch /\ \A m \in 1..(k - 1) : s[m] /= ch
    ELSE 0

HttpPrefix == <<"h","t","t","p",":","/","/">>

----------------------------------------------------------------------------
(* urllib.parse.urlparse, as far as test_proxy_connection uses it *)

\* urllib.parse.scheme_chars
scheme_chars == Range(LowerLetters) \cup Range(UpperLetters) \cup Range(DigitChars)
                    \cup {"+", "-", "."}

\* the index of the ':' that ends a scheme, 0 when the url has no scheme
SchemeEnd(url) ==
    LET c == Find(url, ":") IN
    IF /\ c > 1
       /\ url[1] \in Range(LowerLetters) \cup Range(UpperLetters)
       /\ \A k \in 1..(c - 1) : url[k] \in scheme_chars
    THEN c ELSE 0

\* urlparse(url).scheme
urlparse_scheme(url) ==
    LET c == SchemeEnd(url) IN
    IF c = 0 THEN <<>> ELSE [k \in 1..(c - 1) |-> Lower(url[k])]

\* the netloc of what follows the scheme: between a leading "//" and the next / ? #
Netloc(rest) ==
    LET body == SubSeq(rest, 3, Len(rest))
        stops == {k \in DOMAIN body : body[k] \in {"/", "?", "#"}}
        end == IF stops = {} THEN Len(body)
               ELSE (CHOOSE k \in stops : \A m \in stops : k <= m) - 1
    IN SubSeq(body, 1, end)

\* urlparse raises ValueError("Invalid IPv6 URL") on unbalanced brackets in the netloc
urlparse_raises(url) ==
    LET rest == SubSeq(url, SchemeEnd(url) + 1, Len(url)) IN
    /\ Len(rest) >= 2 /\ rest[1] = "/" /\ rest[2] = "/"
    /\ ("[" \in Range(Netloc(rest))) /= ("]" \in Range(Netloc(rest)))

----------------------------------------------------------------------------
(* Inputs: command line, environment, network *)

\* ProxyConnectionTester.__init__: the default test_urls
DefaultUrls == <<"http://httpbin.org/ip", "https://httpbin.org/ip",
                 "http://www.google.com", "https://www.google.com",
                 "http://example.com", "https://example.com">>

\* the value a --url argument takes in the model (it repeats a default URL)
ExtraUrl == "http://example.com"

common_hosts == << <<"1","2","7",".","0",".","0",".","1">>,
                   <<"l","o","c","a","l","h","o","s","t">>,
                   <<"1","9","2",".","1","6","8",".","1",".","1">>,
                   <<"1","0",".","0",".","0",".","1">> >>
common_ports == <<8080, 3128, 8888, 8118, 1080, 3129, 8081>>

\* the nested loops over common_hosts and common_ports, in generation order
GeneratedCandidates ==
    [k \in 1..(Len(common_hosts) * Len(common_ports)) |->
        Concat(<< HttpPrefix,
                  common_hosts[((k - 1) \div Len(common_ports)) + 1],
                  <<":">>,
                  IntToStr(common_ports[((k - 1) % Len(common_ports)) + 1]) >>)]

\* the candidates the model keeps: the first MaxStatic generated ones
StaticCandidates == SubSeq(GeneratedCandidates, 1, MaxStatic)

Loopback8080 == Concat(<<HttpPrefix, common_hosts[1], <<":">>, IntToStr(8080)>>)
MyProxyPort == <<"m","y","p","r","o","x","y",":","3","1","2","8">>
MyProxy == <<"m","y","p","r","o","x","y">>
BadBracket == <<"/","/","[","b","a","d">>

\* the addresses a --proxy argument takes in the model
ProxyArgPool == {MyProxyPort, Loopback8080}

\* the values of args.proxy: None, or a list of 1..MaxCustom addresses
CustomArgs ==
    {None} \cup {Some(l) : l \in UNION {[1..n -> ProxyArgPool] : n \in 1..MaxCustom}}

EnvNames == {"http_proxy", "HTTP_PROXY", "https_proxy", "HTTPS_PROXY",
             "ftp_proxy", "FTP_PROXY", "no_proxy", "NO_PROXY"}
EnvUnset == [v \in EnvNames |-> None]
Environments ==
    { EnvUnset,
      [EnvUnset EXCEPT !["HTTP_PROXY"] = Some(MyProxy),
                       !["https_proxy"] = Some(MyProxy),
                       !["no_proxy"] = Some(common_hosts[2])],
      [EnvUnset EXCEPT !["http_proxy"] = Some(<<>>),
                       !["HTTP_PROXY"] = Some(BadBracket),
                       !["NO_PROXY"] = Some(common_hosts[2])] }

\* what happens on the wire once opener.open has been called
NetEvents == {"ok", "http_error", "refused", "connect_timeout", "read_timeout",
              "bad_response"}

\* the answers typed at the prompt
Choices == {"env", "auto", ""}

----------------------------------------------------------------------------
(* The exceptions of the probes *)

\* the classes each exception class derives from (itself included)
Bases(cls) ==
    CASE cls = "HTTPError"         -> {"HTTPError", "URLError", "OSError", "Exception"}
      [] cls = "URLError"          -> {"URLError", "OSError", "Exception"}
      [] cls = "OSError"           -> {"OSError", "Exception"}
      [] cls = "socket.timeout"    -> {"socket.timeout", "OSError", "Exception"}
      [] cls = "HTTPException"     -> {"HTTPException", "Exception"}
      [] cls = "ValueError"        -> {"ValueError", "Exception"}
      [] cls = "ZeroDivisionError" -> {"ZeroDivisionError", "Exception"}
      [] cls = "EOFError"          -> {"EOFError", "Exception"}
      [] cls = "KeyboardInterrupt" -> {"KeyboardInterrupt"}
      [] OTHER                     -> {cls}

\* opener.open(request, timeout): the response, or the exception urllib raises.
\* do_open wraps an OSError of h.request (connecting, sending) in URLError and
\* lets an exception of h.getresponse (waiting for the response) through.
opener_open(ev) ==
    CASE ev = "ok"              -> [exc |-> None, code |-> 200, reason |-> "OK"]
      [] ev = "http_error"      -> [exc |-> Some("HTTPError"), code |-> 404,
                                    reason |-> "Not Found"]
      [] ev = "refused"         -> [exc |-> Some("URLError"), code |-> 0,
                                    reason |-> "[Errno 111] Connection refused"]
      [] ev = "connect_timeout" -> [exc |-> Some("URLError"), code |-> 0,
                                    reason |-> "timed out"]
      [] ev = "read_timeout"    -> [exc |-> Some("socket.timeout"), code |-> 0,
                                    reason |-> "timed out"]
      [] ev = "bad_response"    -> [exc |-> Some("HTTPException"), code |-> 0,
                                    reason |-> "Remote end closed connection"]

\* str(code) for the status codes of the model
CodeStr(code) == CASE code = 200 -> "200" [] code = 404 -> "404" [] OTHER -> "?"

ConnectionResult(url, proxy, success, response_code, error_message, headers) ==
    [url |-> url, proxy |-> proxy, success |-> success,
     response_code |-> response_code, error_message |-> error_message,
     headers |-> headers]

\* the index of the first except clause (of the four, in source order) that
\* catches an exception of class cls
ExceptClauses == <<"HTTPError", "URLError", "socket.timeout", "Exception">>
CaughtBy(cls) ==
    CHOOSE k \in DOMAIN ExceptClauses :
        /\ ExceptClauses[k] \in Bases(cls)
        /\ \A m \in 1..(k - 1) : ExceptClauses[m] \notin Bases(cls)

\* the return statement of the k-th except clause.
\* transport is "URL Error: " (direct) or "Proxy Error: " (proxied).
HandlerResult(k, url, proxy, transport, r) ==
    CASE k = 1 -> ConnectionResult(url, proxy, FALSE, Some(r.code),
                      Some(<<"HTTP Error: ", CodeStr(r.code), " - ", r.reason>>), None)
      [] k = 2 -> ConnectionResult(url, proxy, FALSE, None,
                      Some(<<transport, r.reason>>), None)
      [] k = 3 -> ConnectionResult(url, proxy, FALSE, None,
                      Some(<<"Connection timeout">>), None)
      [] k = 4 -> ConnectionResult(url, proxy, FALSE, None,
                      Some(<<"Unexpected error: ", r.reason>>), None)

\* mutant: the timeout handler forgets its error_message
ProbeResult_SilentTimeout(url, proxy, transport, r) ==
    IF r.exc = None
    THEN ConnectionResult(url, proxy, TRUE, Some(r.code), None, Some("headers"))
    ELSE IF CaughtBy(r.exc[1]) = 3
         THEN ConnectionResult(url, proxy, FALSE, None, None, None)
         ELSE HandlerResult(CaughtBy(r.exc[1]), url, proxy, transport, r)

\* what a probe returns: the try body's return on a response, else the return
\* of the clause that catches the exception
ProbeResult(url, proxy, transport, r) ==
    IF r.exc = None
    THEN ConnectionResult(url, proxy, TRUE, Some(r.code), None, Some("headers"))
    ELSE HandlerResult(CaughtBy(r.exc[1]), url, proxy, transport, r)

test_direct_connection(url, ev) ==
    ProbeResult(url, None, "URL Error: ", opener_open(ev))

\* proxy_url after lines 136-138
NormalizedProxy(proxy_url) ==
    IF urlparse_scheme(proxy_url) = <<>> THEN HttpPrefix \o proxy_url ELSE proxy_url

test_proxy_connection(url, proxy_url, ev) ==
    IF urlparse_raises(proxy_url)
    THEN ProbeResult(url, Some(proxy_url), "Proxy Error: ",
             [exc |-> Some("ValueError"), code |-> 0, reason |-> "Invalid IPv6 URL"])
    ELSE ProbeResult(url, Some(NormalizedProxy(proxy_url)), "Proxy Error: ",
             opener_open(ev))

----------------------------------------------------------------------------
(* detect_system_proxy and discover_proxy_servers *)

\* Python's `a or b` on two Optional[str]: a when it is a non-empty string
PyOr(a, b) == IF a /= None /\ a[1] /= <<>> THEN a ELSE b

proxy_vars ==
    [http_proxy  |-> PyOr(environ["http_proxy"], environ["HTTP_PROXY"]),
     https_proxy |-> PyOr(environ["https_proxy"], environ["HTTPS_PROXY"]),
     ftp_proxy   |-> PyOr(environ["ftp_proxy"], environ["FTP_PROXY"]),
     no_proxy    |-> PyOr(environ["no_proxy"], environ["NO_PROXY"])]

\* the value detect_system_proxy returns once input() has returned `choice`
detect_system_proxy(choice) ==
    IF choice = "auto" THEN proxy_vars ELSE proxy_vars

\* potential_proxies before deduplication (lines 205-219)
potential_proxies(system_proxies) ==
    LET keys == <<"http_proxy", "https_proxy", "ftp_proxy">>
        env == [k \in 1..3 |->
                   IF system_proxies[keys[k]] /= None /\ system_proxies[keys[k]][1] /= <<>>
                   THEN <<system_proxies[keys[k]][1]>> ELSE <<>>]
    IN Concat(env) \o StaticCandidates

\* list(set(xs)): the elements of xs once each, in any order
ListOfSet(xs) ==
    {l \in [1..Cardinality(Range(xs)) -> Range(xs)] : Range(l) = Range(xs)}

\* the lists discover_proxy_servers can return
discover_proxy_servers(choice) ==
    ListOfSet(potential_proxies(detect_system_proxy(choice)))

\* discovered_proxies after lines 256-258
ProxiesToTest(discovered, custom_proxies) ==
    IF custom_proxies /= None /\ custom_proxies[1] /= <<>>
    THEN discovered \o custom_proxies[1]
    ELSE discovered

----------------------------------------------------------------------------
(* run_comprehensive_test *)

NewReport ==
    [system_proxy_config |-> [http_proxy |-> None, https_proxy |-> None,
                              ftp_proxy |-> None, no_proxy |-> None],
     direct_connections |-> <<>>,
     proxy_connections |-> <<>>,
     summary |-> [total_tests |-> 0, successful_tests |-> 0, failed_tests |-> 0]]

\* the fields of asdict(result) an entry of the report keeps
asdict(r) == [url |-> r.url, proxy |-> r.proxy]

\* mutant: the slice [:3] is forgotten
ProxyUrls_NoSlice == test_urls

\* self.test_urls[:3]
ProxyUrls == SubSeq(test_urls, 1, IF Len(test_urls) < 3 THEN Len(test_urls) ELSE 3)

\* summary after `total_tests += 1`
CountTotal(summary) == [summary EXCEPT !.total_tests = @ + 1]

\* mutant: the else branch does not count the failure
CountOutcome_SkipsFailure(summary, success) ==
    IF success THEN [summary EXCEPT !.successful_tests = @ + 1] ELSE summary

\* summary after the if/else on result.success
CountOutcome(summary, success) ==
    IF success THEN [summary EXCEPT !.successful_tests = @ + 1]
    ELSE [summary EXCEPT !.failed_tests = @ + 1]

\* an exception leaves run_comprehensive_test: its locals are gone, main's
\* `results` was never bound
Unwind(exc) ==
    /\ pc' = "except"
    /\ raised' = Some(exc)
    /\ report' = NewReport
    /\ i' = 0 /\ pj' = 0
    /\ discovered_proxies' = <<>>
    /\ proxy_results' = <<>>
    /\ result' = None
    /\ net_event' = None

\* line 336: main calls run_comprehensive_test, which builds `results` up to
\* the call of detect_system_proxy
RunStart ==
    /\ pc = "main"
    /\ pc' = "detect"
    /\ report' = NewReport
    /\ UNCHANGED <<test_urls, environ, stdin_open, i, discovered_proxies, pj,
                   proxy_results, result, net_event, file, raised, exit_code, warned, probe_log>>

\* line 226: detect_system_proxy; input() returns a line or raises EOFError
Detect ==
    /\ pc = "detect"
    /\ IF stdin_open
       THEN \E choice \in Choices :
              /\ report' = [report EXCEPT !.system_proxy_config = detect_system_proxy(choice)]
              /\ pc' = "direct_loop"
              /\ i' = 1
              /\ UNCHANGED <<discovered_proxies, pj, proxy_results, result, net_event, raised>>
       ELSE Unwind("EOFError")
    /\ UNCHANGED <<test_urls, environ, stdin_open, file, exit_code, warned, probe_log>>

\* lines 241-244: the next direct probe and the append of its result
DirectProbe ==
    /\ pc = "direct_loop"
    /\ i <= Len(test_urls)
    /\ \E ev \in NetEvents :
         LET r == test_direct_connection(test_urls[i], ev) IN
         /\ result' = Some(r)
         /\ net_event' = Some(ev)
         /\ report' = [report EXCEPT !.direct_connections = Append(@, asdict(r))]
    /\ probe_log' = Append(probe_log, <<test_urls[i], None>>)
    /\ pc' = "direct_total"
    /\ UNCHANGED <<test_urls, environ, stdin_open, i, discovered_proxies, pj,
                   proxy_results, file, raised, exit_code, warned>>

\* line 245
DirectTotal ==
    /\ pc = "direct_total"
    /\ report' = [report EXCEPT !.summary = CountTotal(@)]
    /\ pc' = "direct_outcome"
    /\ UNCHANGED <<test_urls, environ, stdin_open, i, discovered_proxies, pj,
                   proxy_results, result, net_event, file, raised, exit_code, warned, probe_log>>

\* lines 246-251; `result` is not read again before line 243 rebinds it
DirectOutcome ==
    /\ pc = "direct_outcome"
    /\ report' = [report EXCEPT !.summary = CountOutcome(@, result[1].success)]
    /\ result' = None
    /\ net_event' = None
    /\ i' = i + 1
    /\ pc' = "direct_loop"
    /\ UNCHANGED <<test_urls, environ, stdin_open, discovered_proxies, pj,
                   proxy_results, file, raised, exit_code, warned, probe_log>>

\* the direct loop is exhausted: on to line 256
DirectDone ==
    /\ pc = "direct_loop"
    /\ i > Len(test_urls)
    /\ pc' = "discover"
    /\ UNCHANGED <<test_urls, environ, stdin_open, report, i, discovered_proxies, pj,
                   proxy_results, result, net_event, file, raised, exit_code, warned, probe_log>>

\* lines 256-260: discover_proxy_servers (which prompts again), then the
\* --proxy arguments are appended
Discover ==
    /\ pc = "discover"
    /\ IF stdin_open
       THEN \E choice \in Choices, custom_proxies \in CustomArgs :
            \E discovered \in discover_proxy_servers(choice) :
              /\ discovered_proxies' = ProxiesToTest(discovered, custom_proxies)
              /\ pj' = 1
              /\ pc' = IF ProxiesToTest(discovered, custom_proxies) /= <<>>
                       THEN "proxy_loop" ELSE "return"
              /\ UNCHANGED <<report, i, proxy_results, result, net_event, raised>>
       ELSE Unwind("EOFError")
    /\ UNCHANGED <<test_urls, environ, stdin_open, file, exit_code, warned, probe_log>>

\* lines 262-264: the next proxy of the list
ProxyNext ==
    /\ pc = "proxy_loop"
    /\ pj <= Len(discovered_proxies)
    /\ proxy_results' = <<>>
    /\ i' = 1
    /\ pc' = "url_loop"
    /\ UNCHANGED <<test_urls, environ, stdin_open, report, discovered_proxies, pj,
                   result, net_event, file, raised, exit_code, warned, probe_log>>

\* lines 266-269: the next proxied probe and the append of its result
ProxyProbe ==
    /\ pc = "url_loop"
    /\ i <= Len(ProxyUrls)
    /\ \E ev \in NetEvents :
         LET r == test_proxy_connection(ProxyUrls[i], discovered_proxies[pj], ev) IN
         /\ result' = Some(r)
         /\ net_event' = IF urlparse_raises(discovered_proxies[pj]) THEN None ELSE Some(ev)
         /\ proxy_results' = Append(proxy_results, asdict(r))
    /\ probe_log' = Append(probe_log, <<ProxyUrls[i], Some(discovered_proxies[pj])>>)
    /\ pc' = "proxy_total"
    /\ UNCHANGED <<test_urls, environ, stdin_open, report, i, discovered_proxies, pj,
                   file, raised, exit_code, warned>>

\* line 270
ProxyTotal ==
    /\ pc = "proxy_total"
    /\ report' = [report EXCEPT !.summary = CountTotal(@)]
    /\ pc' = "proxy_outcome"
    /\ UNCHANGED <<test_urls, environ, stdin_open, i, discovered_proxies, pj,
                   proxy_results, result, net_event, file, raised, exit_code, warned, probe_log>>

\* lines 272-277; `result` is not read again before line 268 rebinds it
ProxyOutcome ==
    /\ pc = "proxy_outcome"
    /\ report' = [report EXCEPT !.summary = CountOutcome(@, result[1].success)]
    /\ result' = None
    /\ net_event' = None
    /\ i' = i + 1
    /\ pc' = "url_loop"
    /\ UNCHANGED <<test_urls, environ, stdin_open, discovered_proxies, pj,
                   proxy_results, file, raised, exit_code, warned, probe_log>>

\* lines 279-282: the proxy's entry is appended
ProxyRecord ==
    /\ pc = "url_loop"
    /\ i > Len(ProxyUrls)
    /\ report' = [report EXCEPT !.proxy_connections =
                     Append(@, [proxy |-> discovered_proxies[pj],
                                results |-> proxy_results])]
    /\ pj' = pj + 1
    /\ pc' = "proxy_loop"
    /\ UNCHANGED <<test_urls, environ, stdin_open, i, discovered_proxies,
                   proxy_results, result, net_event, file, raised, exit_code, warned, probe_log>>

\* the proxy loop is exhausted
ProxyDone ==
    /\ pc = "proxy_loop"
    /\ pj > Len(discovered_proxies)
    /\ pc' = "return"
    /\ UNCHANGED <<test_urls, environ, stdin_open, report, i, discovered_proxies, pj,
                   proxy_results, result, net_event, file, raised, exit_code, warned, probe_log>>

\* line 286: run_comprehensive_test returns its report to main; its other
\* locals are gone
Return ==
    /\ pc = "return"
    /\ pc' = "print_summary"
    /\ i' = 0 /\ pj' = 0
    /\ discovered_proxies' = <<>>
    /\ proxy_results' = <<>>
    /\ result' = None
    /\ net_event' = None
    /\ UNCHANGED <<test_urls, environ, stdin_open, report, file, raised, exit_code,
                   warned, probe_log>>

----------------------------------------------------------------------------
(* print_summary, save_results and the rest of main *)

\* the success rate print_summary formats, in tenths of a percent
success_rate(summary) == (summary.successful_tests * 1000) \div summary.total_tests

\* line 339: print_summary; line 304 divides by summary['total_tests']
PrintSummary ==
    /\ pc = "print_summary"
    /\ IF report.summary.total_tests = 0
       THEN /\ pc' = "except"
            /\ raised' = Some("ZeroDivisionError")
       ELSE /\ success_rate(report.summary) \in 0..1000
            /\ pc' = "save_check"
            /\ UNCHANGED raised
    /\ UNCHANGED <<test_urls, environ, stdin_open, report, i, discovered_proxies, pj,
                   proxy_results, result, net_event, file, exit_code, warned, probe_log>>

\* line 342: if args.save
SaveCheck ==
    /\ pc = "save_check"
    /\ \E save \in BOOLEAN : pc' = IF save THEN "save_open" ELSE "main_end"
    /\ UNCHANGED <<test_urls, environ, stdin_open, report, i, discovered_proxies, pj,
                   proxy_results, result, net_event, file, raised, exit_code, warned, probe_log>>

\* line 291: open(filename, 'w') truncates the file, or raises OSError, which
\* line 294 catches
SaveOpen ==
    /\ pc = "save_open"
    /\ \/ /\ file' = "truncated"
          /\ pc' = "save_dump"
          /\ UNCHANGED warned
       \/ /\ warned' = TRUE
          /\ pc' = "main_end"
          /\ UNCHANGED file
    /\ UNCHANGED <<test_urls, environ, stdin_open, report, i, discovered_proxies, pj,
                   proxy_results, result, net_event, raised, exit_code, probe_log>>

\* line 292: json.dump writes the report piece by piece; the last piece
\* completes the file, which the with statement closes (line 293 follows)
SaveDump ==
    /\ pc = "save_dump"
    /\ \/ /\ file = "truncated"
          /\ file' = "partial"
          /\ pc' = "save_dump"
       \/ /\ file = "partial"
          /\ file' = "complete"
          /\ pc' = "main_end"
    /\ UNCHANGED <<test_urls, environ, stdin_open, report, i, discovered_proxies, pj,
                   proxy_results, result, net_event, raised, exit_code, warned, probe_log>>

\* mutant: the OSError of a write is not caught and leaves save_results
SaveDumpFails_Propagates ==
    /\ pc = "save_dump"
    /\ pc' = "except"
    /\ raised' = Some("OSError")
    /\ UNCHANGED <<test_urls, environ, stdin_open, report, i, discovered_proxies, pj,
                   proxy_results, result, net_event, file, exit_code, warned, probe_log>>

\* a write of json.dump (or the close) raises OSError, which line 294 catches
SaveDumpFails ==
    /\ pc = "save_dump"
    /\ warned' = TRUE
    /\ pc' = "main_end"
    /\ UNCHANGED <<test_urls, environ, stdin_open, report, i, discovered_proxies, pj,
                   proxy_results, result, net_event, file, raised, exit_code, probe_log>>

\* main returns: the process ends with status 0
MainReturn ==
    /\ pc = "main_end"
    /\ pc' = "exited"
    /\ exit_code' = Some(0)
    /\ UNCHANGED <<test_urls, environ, stdin_open, report, i, discovered_proxies, pj,
                   proxy_results, result, net_event, file, raised, warned, probe_log>>

\* lines 345-347
ExceptKeyboardInterrupt ==
    /\ pc = "except"
    /\ "KeyboardInterrupt" \in Bases(raised[1])
    /\ pc' = "exited"
    /\ exit_code' = Some(1)
    /\ UNCHANGED <<test_urls, environ, stdin_open, report, i, discovered_proxies, pj,
                   proxy_results, result, net_event, file, raised, warned, probe_log>>

\* lines 348-350
ExceptException ==
    /\ pc = "except"
    /\ "KeyboardInterrupt" \notin Bases(raised[1])
    /\ "Exception" \in Bases(raised[1])
    /\ pc' = "exited"
    /\ exit_code' = Some(1)
    /\ UNCHANGED <<test_urls, environ, stdin_open, report, i, discovered_proxies, pj,
                   proxy_results, result, net_event, file, raised, warned, probe_log>>

\* the positions inside run_comprehensive_test
RctPcs == {"detect", "direct_loop", "direct_total", "direct_outcome", "discover",
           "proxy_loop", "url_loop", "proxy_total", "proxy_outcome", "return"}
\* the positions of main's try block after run_comprehensive_test has returned
TailPcs == {"print_summary", "save_check", "save_open", "save_dump", "main_end"}

\* the user interrupts: KeyboardInterrupt is raised wherever the program is
\* inside main's try block.  No `except Exception` catches it (it derives
\* from BaseException only), so it reaches line 345.
Interrupt ==
    /\ \/ /\ pc \in RctPcs \cup {"main"}
          /\ Unwind("KeyboardInterrupt")
       \/ /\ pc \in TailPcs
          /\ pc' = "except"
          /\ raised' = Some("KeyboardInterrupt")
          /\ UNCHANGED <<report, i, discovered_proxies, pj, proxy_results, result, net_event>>
    /\ UNCHANGED <<test_urls, environ, stdin_open, file, exit_code, warned, probe_log>>

----------------------------------------------------------------------------
(* Specifications *)

\* main, from the try block on: lines 327-334 have built the tester and
\* extended test_urls by the --url arguments
Init ==
    /\ pc = "main"
    /\ test_urls \in {DefaultUrls \o [k \in 1..n |-> ExtraUrl] : n \in 0..MaxExtraUrls}
    /\ environ \in Environments
    /\ stdin_open \in BOOLEAN
    /\ report = NewReport
    /\ i = 0 /\ pj = 0
    /\ discovered_proxies = <<>>
    /\ proxy_results = <<>>
    /\ result = None
    /\ net_event = None
    /\ file = "prior"
    /\ raised = None
    /\ exit_code = None
    /\ warned = FALSE
    /\ probe_log = <<>>

Reporting ==
    \/ PrintSummary \/ SaveCheck \/ SaveOpen \/ SaveDump \/ SaveDumpFails
    \/ MainReturn \/ ExceptKeyboardInterrupt \/ ExceptException \/ Interrupt

Next ==
    \/ RunStart \/ Detect
    \/ DirectProbe \/ DirectTotal \/ DirectOutcome \/ DirectDone
    \/ Discover
    \/ ProxyNext \/ ProxyProbe \/ ProxyTotal \/ ProxyOutcome \/ ProxyRecord \/ ProxyDone
    \/ Return
    \/ Reporting

Spec == Init /\ [][Next]_vars

\* the tallies of the reports print_summary can be handed: those of up to
\* MaxTally probes
Tallies ==
    {[total_tests |-> t, successful_tests |-> k, failed_tests |-> t - k] :
        t \in 0..MaxTally, k \in 0..MaxTally} \cap
    [total_tests : 0..MaxTally, successful_tests : 0..MaxTally, failed_tests : 0..MaxTally]

\* main from line 339 on, for any report: print_summary, then save_results
InitReporting ==
    /\ pc = "print_summary"
    /\ test_urls = DefaultUrls
    /\ environ \in Environments
    /\ stdin_open \in BOOLEAN
    /\ report \in {[NewReport EXCEPT !.system_proxy_config = proxy_vars,
                                     !.summary = t] : t \in Tallies}
    /\ i = 0 /\ pj = 0
    /\ discovered_proxies = <<>>
    /\ proxy_results = <<>>
    /\ result = None
    /\ net_event = None
    /\ file = "prior"
    /\ raised = None
    /\ exit_code = None
    /\ warned = FALSE
    /\ probe_log = <<>>

SpecReporting == InitReporting /\ [][Reporting]_vars

\* run_comprehensive_test alone, called on a tester whose test_urls is any
\* list of up to 6 + MaxExtraUrls URLs
InitRun ==
    /\ pc = "main"
    /\ test_urls \in {SubSeq(DefaultUrls \o [k \in 1..MaxExtraUrls |-> ExtraUrl], 1, n) :
                        n \in 0..(Len(DefaultUrls) + MaxExtraUrls)}
    /\ environ \in Environments
    /\ stdin_open \in BOOLEAN
    /\ report = NewReport
    /\ i = 0 /\ pj = 0
    /\ discovered_proxies = <<>>
    /\ proxy_results = <<>>
    /\ result = None
    /\ net_event = None
    /\ file = "prior"
    /\ raised = None
    /\ exit_code = None
    /\ warned = FALSE
    /\ probe_log = <<>>

NextRun ==
    \/ RunStart \/ Detect
    \/ DirectProbe \/ DirectTotal \/ DirectOutcome \/ DirectDone
    \/ Discover
    \/ ProxyNext \/ ProxyProbe \/ ProxyTotal \/ ProxyOutcome \/ ProxyRecord \/ ProxyDone
    \/ Return

SpecRun == InitRun /\ [][NextRun]_vars

----------------------------------------------------------------------------
(* Properties *)

Summary == report.summary
Interrupted == raised = Some("KeyboardInterrupt")
Min(a, b) == IF a < b THEN a ELSE b

\* C1: whenever no probe is half-tallied (and so at the end of a run)
\* total_tests = successful_tests + failed_tests, between `total_tests += 1`
\* and the outcome's increment the total is one ahead, and no step of a run
\* decreases any of the three counters.
C1_TallyConsistent ==
    /\ [](/\ pc \notin {"direct_outcome", "proxy_outcome"} =>
                Summary.total_tests = Summary.successful_tests + Summary.failed_tests
          /\ pc \in {"direct_outcome", "proxy_outcome"} =>
                Summary.total_tests = Summary.successful_tests + Summary.failed_tests + 1)
    /\ [][pc' \in RctPcs \cup TailPcs =>
            /\ Summary'.total_tests >= Summary.total_tests
            /\ Summary'.successful_tests >= Summary.successful_tests
            /\ Summary'.failed_tests >= Summary.failed_tests]_vars

\* a run has returned a report that tallies direct and proxied probes, some
\* successful and some failed
C1_Witness ==
    /\ pc = "print_summary"
    /\ Summary.total_tests > Len(test_urls)
    /\ Summary.successful_tests > 0
    /\ Summary.failed_tests > 0

\* C2: every ConnectionResult a probe returns has success = TRUE and no
\* error_message, or success = FALSE and an error_message.
C2_SuccessXorError ==
    result /= None => (result[1].success <=> result[1].error_message = None)

\* a proxied probe has returned a failure through the catch-all handler
C2_Witness ==
    /\ result /= None
    /\ result[1].proxy /= None
    /\ ~result[1].success
    /\ result[1].error_message /= None
    /\ result[1].error_message[1][1] = "Unexpected error: "

\* the probes of a complete run: every URL directly, in list order, then for
\* each entry of the proxy list the first min(3, len) URLs in order
ExpectedLog(urls, proxies) ==
    LET m == Min(3, Len(urls)) IN
    [k \in 1..Len(urls) |-> <<urls[k], None>>] \o
    [k \in 1..(Len(proxies) * m) |->
        <<urls[((k - 1) % m) + 1], Some(proxies[((k - 1) \div m) + 1])>>]

\* C3: when run_comprehensive_test is about to return, the probes issued are
\* exactly one direct probe per URL in list order followed, for each proxy
\* candidate, by one probe of each of the first min(3, len(test_urls)) URLs
\* in order -- no probe is repeated whatever the outcomes were -- and the
\* report holds as many results.
C3_ProbeCounts ==
    pc = "return" =>
        /\ probe_log = ExpectedLog(test_urls, discovered_proxies)
        /\ Len(report.direct_connections) = Len(test_urls)
        /\ Len(report.proxy_connections) = Len(discovered_proxies)
        /\ \A k \in DOMAIN report.proxy_connections :
              Len(report.proxy_connections[k].results) = Min(3, Len(test_urls))
        /\ Summary.total_tests =
              Len(test_urls) + Len(discovered_proxies) * Min(3, Len(test_urls))

\* a run over two URLs and at least two proxies completes after failures
C3_Witness ==
    /\ pc = "return"
    /\ Len(test_urls) = 2
    /\ Len(discovered_proxies) >= 2
    /\ Summary.failed_tests >= 2
    /\ Len(probe_log) = 2 + 2 * Len(discovered_proxies)

\* C4: no proxy address has two entries in proxy_connections and no
\* (url, proxy) pair is probed twice.
C4_CandidatesDeduplicated ==
    /\ \A a, b \in DOMAIN report.proxy_connections :
          a /= b => report.proxy_connections[a].proxy /= report.proxy_connections[b].proxy
    /\ \A a, b \in DOMAIN probe_log :
          (a /= b /\ probe_log[a][2] /= None) => probe_log[a] /= probe_log[b]

\* C5: a probe that timed out, while connecting or while waiting for the
\* response, returns success = FALSE, response_code = None and the
\* error_message "Connection timeout".
C5_TimeoutClassified ==
    (result /= None /\ net_event \in {Some("connect_timeout"), Some("read_timeout")}) =>
        /\ ~result[1].success
        /\ result[1].response_code = None
        /\ result[1].error_message = Some(<<"Connection timeout">>)

\* the address is a bare host or host:port: it has no "/" at all, so no
\* "scheme://" prefix
IsHostPort(addr) == addr /= <<>> /\ "/" \notin Range(addr)

\* C6: the result of a proxied probe whose proxy address is a bare host or
\* host:port (it lacks a scheme) names "http://" followed by that address as
\* its proxy, whatever the outcome.
C6_ProxyNormalized ==
    (pc = "proxy_total" /\ IsHostPort(discovered_proxies[pj])) =>
        result[1].proxy = Some(HttpPrefix \o discovered_proxies[pj])

\* C7: once main has handled a user interrupt the exit status is 1 and the
\* output file is not left truncated or half written.
C7_InterruptLeavesNoPartialFile ==
    (pc = "exited" /\ Interrupted) =>
        /\ exit_code = Some(1)
        /\ file \notin {"truncated", "partial"}

\* C8: print_summary raises no ZeroDivisionError (a report with
\* total_tests = 0 included).
C8_NoDivisionByZero ==
    raised /= Some("ZeroDivisionError")

\* C9: a run with no input available on stdin that ends without a user
\* interrupt ends by completing (exit status 0), and detect_system_proxy
\* returns the same configuration for every answer to its prompt.
C9_PromptNeverStopsTheRun ==
    /\ (~stdin_open /\ pc = "exited" /\ ~Interrupted) => exit_code = Some(0)
    /\ \A c \in Choices : detect_system_proxy(c) = proxy_vars

\* C10: no step of save_results changes the report or lets an exception other
\* than a user interrupt out, and a run whose save failed with the warning,
\* and was not interrupted, exits with status 0.
C10_SaveFailureIsNotFatal ==
    /\ []((pc = "exited" /\ warned /\ raised = None) => exit_code = Some(0))
    /\ [][(pc \in {"save_open", "save_dump"}) =>
            (report' = report /\ (raised' = raised \/ Interrupted'))]_vars

\* json.dump failed half way: the warning was printed and main exited with 0
C10_Witness ==
    /\ pc = "exited"
    /\ warned
    /\ file = "partial"
    /\ exit_code = Some(0)
    /\ Summary.total_tests > 0

====
